---- MODULE Spec2Model ----
(***************************************************************************)
(* The gRPC StoreService server of src/grpcServer.js: the three unary      *)
(* handlers (verifyStoreAccess, getStoreInfo, getProductByStripeCode), the *)
(* environment resolver they share, and the two collaborators they await   *)
(* (shopService.getShopById, productService.getProductById2).              *)
(*                                                                         *)
(* A handler is an async function: it runs without interruption up to its  *)
(* next await, so every action below is one such run-to-await segment.     *)
(***************************************************************************)
EXTENDS Integers, Sequences, FiniteSets, TLC

(***************************************************************************)
(* Bounds of the model.                                                    *)
(***************************************************************************)
\* how often the wall clock advances
MaxTicks == 1
\* longest list of values one metadata key carries (resolver specification)
MaxValues == 2
\* the wall clock at the start, and how far one tick advances it (ms)
StartMs == 5500
TickMs == 600

\* Date.now() / 1000, getTime() / 1000
MsPerSecond == 1000

(***************************************************************************)
(* JavaScript values, as far as the handlers look at them.                 *)
(***************************************************************************)
Undefined == [t |-> "undefined"]
Null == [t |-> "null"]
Str(s) == [t |-> "string", v |-> s]
Num(n) == [t |-> "number", v |-> n]
Bool(b) == [t |-> "boolean", v |-> b]

\* ToBoolean: what `!x`, `x ? a : b` and `x || y` test
Truthy(x) ==
  CASE x.t = "string" -> x.v # ""
    [] x.t = "number" -> x.v # 0
    [] x.t = "boolean" -> x.v
    [] x.t = "undefined" -> FALSE
    [] x.t = "null" -> FALSE
    [] OTHER -> TRUE

\* x || y
OrElse(x, y) == IF Truthy(x) THEN x ELSE y

\* An object: its entries in Object.entries order, <<key, value>>.
Obj(entries) == [t |-> "object", entries |-> entries]
\* An array: its items in order. typeof is 'object' for it as well.
Arr(items) == [t |-> "array", items |-> items]

\* {} and obj[key] = value, for the string maps the responses carry
EmptyMap == [k \in {} |-> ""]
MapPut(map, key, value) ==
  [k \in DOMAIN map \cup {key} |-> IF k = key THEN value ELSE map[k]]

\* String(x)
RECURSIVE JsonText(_)
RECURSIVE JsonMembers(_, _)
RECURSIVE JsonItems(_, _)
StringOf(x) ==
  CASE x.t = "string" -> x.v
    [] x.t = "number" -> ToString(x.v)
    [] x.t = "boolean" -> IF x.v THEN "true" ELSE "false"
    [] x.t = "undefined" -> "undefined"
    [] x.t = "null" -> "null"
    [] OTHER -> "[object Object]"

\* the members of an object from entry i on, comma-separated; a member whose
\* value is undefined is left out
JsonMembers(entries, i) ==
  IF i > Len(entries) THEN ""
  ELSE IF entries[i][2].t = "undefined" THEN JsonMembers(entries, i + 1)
  ELSE LET rest == JsonMembers(entries, i + 1)
           this == "\"" \o entries[i][1] \o "\":" \o JsonText(entries[i][2])
       IN IF rest = "" THEN this ELSE this \o "," \o rest

\* the items of an array from item i on, comma-separated
JsonItems(items, i) ==
  IF i > Len(items) THEN ""
  ELSE IF i = Len(items) THEN JsonText(items[i])
  ELSE JsonText(items[i]) \o "," \o JsonItems(items, i + 1)

\* JSON.stringify(x), for the values without characters to escape
JsonText(x) ==
  CASE x.t = "string" -> "\"" \o x.v \o "\""
    [] x.t = "number" -> ToString(x.v)
    [] x.t = "boolean" -> IF x.v THEN "true" ELSE "false"
    [] x.t = "null" -> "null"
    [] x.t = "object" -> "{" \o JsonMembers(x.entries, 1) \o "}"
    [] x.t = "array" -> "[" \o JsonItems(x.items, 1) \o "]"
    [] OTHER -> "undefined"

(***************************************************************************)
(* The calls the server is handed.                                         *)
(***************************************************************************)
CallIds == {1, 2}

RpcNames == {"VerifyStoreAccess", "GetStoreInfo", "GetProductByStripeCode"}

\* A field of a request message on the wire: <<>> when the peer left it out.
ProjectIdsOnWire == {<<>>, <<"">>, <<"p1">>, <<"p2">>}
StoreIdsOnWire == {<<>>, <<"">>, <<"s1">>}
StripeCodesOnWire == {<<>>, <<"">>, <<"c1">>}

\* loadProto's `defaults: true`: a string field left out decodes to "".
DecodeField(f) == IF f = <<>> THEN "" ELSE f[1]

\* The request object a handler destructures. StoreAccessRequest and
\* StoreInfoRequest carry no stripe_code.
DecodeRequest(rpc, p, s, c) ==
  IF rpc = "GetProductByStripeCode"
    THEN [project_id |-> DecodeField(p), store_id |-> DecodeField(s),
          stripe_code |-> DecodeField(c)]
    ELSE [project_id |-> DecodeField(p), store_id |-> DecodeField(s)]

\* call.metadata: the values each key carries, in order; <<>> for a key the
\* peer did not send (Metadata.get returns [] then).
MetadataOf(e, x) == [env |-> e, xenv |-> x]

NoMetadata == MetadataOf(<<>>, <<>>)

MetadataSet ==
  { NoMetadata,
    MetadataOf(<<"prod">>, <<"demo">>),
    MetadataOf(<<"PROD">>, <<"master">>),
    MetadataOf(<<"">>, <<"prod">>) }

MetadataGet(metadata, key) ==
  IF key = "env" THEN metadata.env
  ELSE IF key = "x-environment" THEN metadata.xenv
  ELSE <<>>

Environments == {"prod", "master", "demo"}

(***************************************************************************)
(* getEnvironmentFromMetadata                                              *)
(***************************************************************************)
\* a resolver without the fallback key
EnvHeaderFirstOnly(metadata) == MetadataGet(metadata, "env")

\* lines 97-100: the header the resolver settles on, 'env', else 'x-environment'

EnvHeader(metadata) ==
  LET envHeader == MetadataGet(metadata, "env")
  IN IF Len(envHeader) = 0 THEN MetadataGet(metadata, "x-environment")
     ELSE envHeader

\* envHeader && envHeader.length > 0 ? envHeader[0] : null
EnvCandidate(metadata) ==
  LET envHeader == EnvHeader(metadata)
  IN IF Len(envHeader) > 0 THEN Str(envHeader[1]) ELSE Null

\* a normalisation that folds case
NormalizeAnyCase(env) ==
  IF env \in {Str("prod"), Str("PROD")} THEN "prod"
  ELSE IF env \in {Str("master"), Str("Master")} THEN "master"
  ELSE "demo"

\* lines 104-111
NormalizeEnvironment(env) ==
  IF env = Str("prod") \/ env = Str("master") THEN env.v ELSE "demo"

getEnvironmentFromMetadata(metadata) ==
  NormalizeEnvironment(EnvCandidate(metadata))

(***************************************************************************)
(* The collaborators. A lookup resolves with a record, resolves with no    *)
(* record, or rejects with an Error.                                       *)
(***************************************************************************)
Found(r) == [kind |-> "record", rec |-> r]
NotFound == [kind |-> "none"]
Throws(m) == [kind |-> "throws", message |-> m]

ErrorMessages == {"connect ECONNREFUSED"}

ShopRecord(id, name, status, updatedAt) ==
  [id |-> id, name |-> name, status |-> status, address |-> Undefined,
   contact_no |-> Undefined, shop_admin_email |-> Undefined,
   shopType |-> Undefined, updated_at |-> updatedAt]

ShopRecords ==
  { ShopRecord(Str("shop-1"), Str("Kiosk"), Str("open"), Num(1500)),
    ShopRecord(Undefined, Undefined, Str("closed"), Undefined) }

ShopOutcomes ==
  {NotFound} \cup {Throws(m) : m \in ErrorMessages} \cup {Found(r) : r \in ShopRecords}

(***************************************************************************)
(* What a handler does, in the order it does it.                           *)
(***************************************************************************)
LogInfo(text) == [ev |-> "log", level |-> "info", text |-> text]
LogError(text, message) ==
  [ev |-> "log", level |-> "error", text |-> text, message |-> message]
CallGetShopById(env, storeId) ==
  [ev |-> "getShopById", env |-> env, store_id |-> storeId]
CallGetProductById2(env, storeId, stripeCode) ==
  [ev |-> "getProductById2", env |-> env, store_id |-> storeId,
   stripe_code |-> stripeCode]
\* callback(error) and callback(null, response)
CallbackError(code, message) ==
  [ev |-> "callback", ok |-> FALSE, code |-> code, message |-> message]
CallbackResponse(response) ==
  [ev |-> "callback", ok |-> TRUE, response |-> response]

\* One run of a handler up to its next await or its return: the state the
\* call is left in, what it did, and whether an exception left the handler
\* (the promise of the async function rejected).
Segment(pc, env, events) ==
  [pc |-> pc, env |-> env, events |-> events, escaped |-> FALSE]

\* a catch block that hands the error text out without logging it
CatchSilently(pc, env, label, message) ==
  Segment(pc, env, << CallbackError("INTERNAL", "Internal error: " \o message) >>)

\* the catch block of a handler: log, then answer Internal
CatchBlock(pc, env, label, message) ==
  Segment(pc, env,
    << LogError(label, message),
       CallbackError("INTERNAL", "Internal error: " \o message) >>)

(***************************************************************************)
(* verifyStoreAccess                                                       *)
(***************************************************************************)
\* a validation that forgets project_id
MissingIdsStoreOnly(request) == request.store_id = ""

\* !project_id || !store_id

MissingIds(request) == request.project_id = "" \/ request.store_id = ""

VerifyStoreAccessStart(request, metadata) ==
  IF MissingIds(request)
    THEN Segment("done", "",
           << CallbackError("INVALID_ARGUMENT",
                            "project_id and store_id are required") >>)
    ELSE LET env == getEnvironmentFromMetadata(metadata)
         IN Segment("awaitShop", env,
              << LogInfo("Verifying store access: project_id=" \o request.project_id
                         \o ", store_id=" \o request.store_id \o ", env=" \o env),
                 CallGetShopById(env, request.store_id) >>)

\* a response that does not look at the store's status
VerifyIgnoringStatus(request, shop) ==
  IF shop.kind = "none"
    THEN [has_access |-> FALSE,
          message |-> "Store " \o request.store_id \o " not found",
          store_id |-> request.store_id, project_id |-> request.project_id]
    ELSE [has_access |-> TRUE, message |-> "Access granted",
          store_id |-> request.store_id, project_id |-> request.project_id]

\* a response that grants access to one project only
VerifyScopedByProject(request, shop) ==
  IF shop.kind = "none" \/ request.project_id # "p1"
    THEN [has_access |-> FALSE,
          message |-> "Store " \o request.store_id \o " not found",
          store_id |-> request.store_id, project_id |-> request.project_id]
    ELSE IF shop.rec.status = Str("closed")
      THEN [has_access |-> FALSE,
            message |-> "Store " \o request.store_id \o " is closed",
            store_id |-> request.store_id, project_id |-> request.project_id]
      ELSE [has_access |-> TRUE, message |-> "Access granted",
            store_id |-> request.store_id, project_id |-> request.project_id]

\* lines 136-162: the response for a lookup that resolved
VerifyStoreAccessResponse(request, shop) ==
  IF shop.kind = "none"
    THEN [has_access |-> FALSE,
          message |-> "Store " \o request.store_id \o " not found",
          store_id |-> request.store_id, project_id |-> request.project_id]
    ELSE IF shop.rec.status = Str("closed")
      THEN [has_access |-> FALSE,
            message |-> "Store " \o request.store_id \o " is closed",
            store_id |-> request.store_id, project_id |-> request.project_id]
      ELSE [has_access |-> TRUE, message |-> "Access granted",
            store_id |-> request.store_id, project_id |-> request.project_id]

\* a handler whose not-found branch answers without returning: it goes on
\* to read the status of no record, and the catch block answers again
VerifyResumeFallingThrough(request, env, shop) ==
  IF shop.kind = "throws"
    THEN CatchBlock("done", env, "Error verifying store access:", shop.message)
  ELSE IF shop.kind = "none"
    THEN Segment("done", env,
           << CallbackResponse(VerifyStoreAccessResponse(request, shop)),
              LogError("Error verifying store access:",
                       "Cannot read properties of null (reading 'status')"),
              CallbackError("INTERNAL", "Internal error: "
                \o "Cannot read properties of null (reading 'status')") >>)
  ELSE Segment("done", env,
         << CallbackResponse(VerifyStoreAccessResponse(request, shop)) >>)

VerifyStoreAccessResume(request, env, shop) ==
  IF shop.kind = "throws"
    THEN CatchBlock("done", env, "Error verifying store access:", shop.message)
    ELSE Segment("done", env,
           << CallbackResponse(VerifyStoreAccessResponse(request, shop)) >>)

(***************************************************************************)
(* getStoreInfo                                                            *)
(***************************************************************************)
GetStoreInfoStart(request, metadata) ==
  IF MissingIds(request)
    THEN Segment("done", "",
           << CallbackError("INVALID_ARGUMENT",
                            "project_id and store_id are required") >>)
    ELSE LET env == getEnvironmentFromMetadata(metadata)
         IN Segment("awaitShop", env,
              << LogInfo("Getting store info: project_id=" \o request.project_id
                         \o ", store_id=" \o request.store_id \o ", env=" \o env),
                 CallGetShopById(env, request.store_id) >>)

\* a map with the same default for every field, which also carries the
\* record's owner when it has one
StoreMetadataWithOwner(shop) ==
  LET five == [status |-> OrElse(shop.status, Str("")),
               address |-> OrElse(shop.address, Str("")),
               contact_no |-> OrElse(shop.contact_no, Str("")),
               shop_admin_email |-> OrElse(shop.shop_admin_email, Str("")),
               shopType |-> OrElse(shop.shopType, Str(""))]
  IN IF "owner" \in DOMAIN shop /\ Truthy(shop.owner)
       THEN MapPut(five, "owner", shop.owner)
       ELSE five

\* lines 207-213
StoreMetadata(shop) ==
  [status |-> OrElse(shop.status, Str("")),
   address |-> OrElse(shop.address, Str("")),
   contact_no |-> OrElse(shop.contact_no, Str("")),
   shop_admin_email |-> OrElse(shop.shop_admin_email, Str("")),
   shopType |-> OrElse(shop.shopType, Str("store"))]

\* Math.floor(ms / 1000)
EpochSeconds(ms) == ms \div MsPerSecond

\* a timestamp that is always the wall clock's
UpdatedAtAlwaysNow(shop, nowMs) == EpochSeconds(nowMs)

\* lines 216-218; new Date(t).getTime() is t for a number of milliseconds
UpdatedAt(shop, nowMs) ==
  IF Truthy(shop.updated_at)
    THEN EpochSeconds(shop.updated_at.v)
    ELSE EpochSeconds(nowMs)

\* a not-found answer that is stamped with the wall clock
GetStoreInfoNotFoundStamped(request, env, shop, nowMs) ==
  IF shop.kind = "none"
    THEN [exists |-> FALSE, store_id |-> Str(request.store_id), name |-> Str(""),
          environment |-> env, project_id |-> request.project_id,
          metadata |-> EmptyMap, updated_at |-> EpochSeconds(nowMs)]
    ELSE [exists |-> TRUE,
          store_id |-> OrElse(shop.rec.id, Str(request.store_id)),
          name |-> OrElse(shop.rec.name, Str("")),
          environment |-> env, project_id |-> request.project_id,
          metadata |-> StoreMetadata(shop.rec),
          updated_at |-> UpdatedAt(shop.rec, nowMs)]

\* a found answer that hides a store that is not open and echoes the request
GetStoreInfoHidingClosed(request, env, shop, nowMs) ==
  IF shop.kind = "none"
    THEN [exists |-> FALSE, store_id |-> Str(request.store_id), name |-> Str(""),
          environment |-> env, project_id |-> request.project_id,
          metadata |-> EmptyMap, updated_at |-> 0]
    ELSE [exists |-> shop.rec.status = Str("open"),
          store_id |-> Str(request.store_id),
          name |-> OrElse(shop.rec.name, Str("")),
          environment |-> env, project_id |-> request.project_id,
          metadata |-> StoreMetadata(shop.rec),
          updated_at |-> UpdatedAt(shop.rec, nowMs)]

\* lines 194-228
GetStoreInfoResponse(request, env, shop, nowMs) ==
  IF shop.kind = "none"
    THEN [exists |-> FALSE, store_id |-> Str(request.store_id), name |-> Str(""),
          environment |-> env, project_id |-> request.project_id,
          metadata |-> EmptyMap, updated_at |-> 0]
    ELSE [exists |-> TRUE,
          store_id |-> OrElse(shop.rec.id, Str(request.store_id)),
          name |-> OrElse(shop.rec.name, Str("")),
          environment |-> env, project_id |-> request.project_id,
          metadata |-> StoreMetadata(shop.rec),
          updated_at |-> UpdatedAt(shop.rec, nowMs)]

GetStoreInfoResume(request, env, shop, nowMs) ==
  IF shop.kind = "throws"
    THEN CatchBlock("done", env, "Error getting store info:", shop.message)
    ELSE Segment("done", env,
           << CallbackResponse(GetStoreInfoResponse(request, env, shop, nowMs)) >>)

(***************************************************************************)
(* getProductByStripeCode                                                  *)
(***************************************************************************)
ProductRecord(code, title, price, shopId, oid, metadata, units, isVending, availableItems) ==
  [stripeCode |-> code, title |-> title, category |-> Undefined,
   picture |-> Undefined, price |-> price, purchasePrice |-> Undefined,
   shopId |-> shopId, _id |-> oid, id |-> Undefined, metadata |-> metadata,
   units |-> units, isVending |-> isVending, availableItems |-> availableItems]

ProductRecords ==
  { ProductRecord(Str("c1"), Str("Cola"), Num(250), Str("s1"), Str("o1"),
                  Obj(<< <<"a", Num(1)>>, <<"b", Obj(<< <<"x", Num(2)>> >>)>> >>),
                  Num(3), Bool(FALSE), Num(0)),
    ProductRecord(Undefined, Undefined, Undefined, Undefined, Undefined,
                  Undefined, Undefined, Undefined, Undefined) }

ProductOutcomes ==
  {NotFound} \cup {Throws(m) : m \in ErrorMessages}
    \cup {Found(r) : r \in ProductRecords}

\* !project_id || !store_id || !stripe_code
MissingProductIds(request) ==
  request.project_id = "" \/ request.store_id = "" \/ request.stripe_code = ""

GetProductByStripeCodeStart(request, metadata) ==
  IF MissingProductIds(request)
    THEN Segment("done", "",
           << CallbackError("INVALID_ARGUMENT",
                            "project_id, store_id, and stripe_code are required") >>)
    ELSE LET env == getEnvironmentFromMetadata(metadata)
         IN Segment("awaitShop", env,
              << LogInfo("Getting product by stripe code: project_id="
                         \o request.project_id \o ", store_id=" \o request.store_id
                         \o ", stripe_code=" \o request.stripe_code
                         \o ", env=" \o env),
                 CallGetShopById(env, request.store_id) >>)

\* a not-found answer that echoes nothing of the request
ProductNotFoundBlank(request) ==
  [exists |-> FALSE, stripe_code |-> Str(""), title |-> Str(""),
   category |-> Str(""), picture |-> Str(""), price |-> Num(0),
   purchase_price |-> Num(0), shop_id |-> Str(""),
   _id |-> Str(""), metadata |-> EmptyMap]

\* lines 260-271 and 279-290
ProductNotFound(request) ==
  [exists |-> FALSE, stripe_code |-> Str(request.stripe_code), title |-> Str(""),
   category |-> Str(""), picture |-> Str(""), price |-> Num(0),
   purchase_price |-> Num(0), shop_id |-> Str(request.store_id),
   _id |-> Str(""), metadata |-> EmptyMap]

\* a handler that asks the catalog whatever the store lookup resolved with
GetProductAfterShopAlways(request, env, shop) ==
  IF shop.kind = "throws"
    THEN CatchBlock("done", env, "Error getting product by stripe code:",
                    shop.message)
  ELSE Segment("awaitProduct", env,
         << CallGetProductById2(env, request.store_id, request.stripe_code) >>)

\* a handler that answers a missing store with a NOT_FOUND error
GetProductAfterShopRejecting(request, env, shop) ==
  IF shop.kind = "throws"
    THEN CatchBlock("done", env, "Error getting product by stripe code:",
                    shop.message)
  ELSE IF shop.kind = "none"
    THEN Segment("done", env,
           << CallbackError("NOT_FOUND", "Store " \o request.store_id \o " not found") >>)
  ELSE Segment("awaitProduct", env,
         << CallGetProductById2(env, request.store_id, request.stripe_code) >>)

\* a handler that treats a closed store as no store and asks the catalog by
\* the record's own id
GetProductAfterShopByRecord(request, env, shop) ==
  IF shop.kind = "throws"
    THEN CatchBlock("done", env, "Error getting product by stripe code:",
                    shop.message)
  ELSE IF shop.kind = "none" \/ shop.rec.status = Str("closed")
    THEN Segment("done", env, << CallbackResponse(ProductNotFound(request)) >>)
  ELSE Segment("awaitProduct", env,
         << CallGetProductById2(env, OrElse(shop.rec.id, Str(request.store_id)).v,
                                request.stripe_code) >>)

\* lines 259-275: after the store lookup
GetProductAfterShop(request, env, shop) ==
  IF shop.kind = "throws"
    THEN CatchBlock("done", env, "Error getting product by stripe code:",
                    shop.message)
  ELSE IF shop.kind = "none"
    THEN Segment("done", env, << CallbackResponse(ProductNotFound(request)) >>)
  ELSE Segment("awaitProduct", env,
         << CallGetProductById2(env, request.store_id, request.stripe_code) >>)

\* typeof value === 'object'
TypeofObject(value) == value.t \in {"object", "array", "null"}

\* a conversion that applies String() to every value
RECURSIVE FreeFormEntriesAsString(_, _, _)
FreeFormEntriesAsString(entries, i, map) ==
  IF i > Len(entries) THEN map
  ELSE FreeFormEntriesAsString(entries, i + 1,
         MapPut(map, entries[i][1], StringOf(entries[i][2])))

\* lines 298-305: the free-form metadata, entry by entry from entry i on
RECURSIVE FreeFormEntries(_, _, _)
FreeFormEntries(entries, i, map) ==
  IF i > Len(entries) THEN map
  ELSE LET key == entries[i][1]
           value == entries[i][2]
       IN FreeFormEntries(entries, i + 1,
            MapPut(map, key,
                   IF TypeofObject(value)
                     THEN JsonText(value) ELSE StringOf(value)))

\* lines 295-311
ProductMetadata(product) ==
  LET free == IF Truthy(product.metadata) /\ product.metadata.t = "object"
                THEN FreeFormEntries(product.metadata.entries, 1, EmptyMap)
                ELSE EmptyMap
      withUnits == IF Truthy(product.units)
                     THEN MapPut(free, "units", StringOf(product.units))
                     ELSE free
      withVending == IF product.isVending # Undefined
                       THEN MapPut(withUnits, "isVending", StringOf(product.isVending))
                       ELSE withUnits
  IN IF product.availableItems # Undefined
       THEN MapPut(withVending, "availableItems", StringOf(product.availableItems))
       ELSE withVending

\* lines 313-324
ProductFound(request, product) ==
  [exists |-> TRUE,
   stripe_code |-> OrElse(product.stripeCode, Str(request.stripe_code)),
   title |-> OrElse(product.title, Str("")),
   category |-> OrElse(product.category, Str("")),
   picture |-> OrElse(product.picture, Str("")),
   price |-> OrElse(product.price, Num(0)),
   purchase_price |-> OrElse(product.purchasePrice, Num(0)),
   shop_id |-> OrElse(product.shopId, Str(request.store_id)),
   _id |-> OrElse(OrElse(product._id, product.id), Str("")),
   metadata |-> ProductMetadata(product)]

\* The ProductLookupResult message of the service contract, and what the
\* library sends for the object a handler answers with: the fields of the
\* message, a field the object lacks at its default (defaults: true), and
\* nothing of a key the message does not have.
ProductLookupResultFields ==
  {"exists", "stripe_code", "title", "category", "picture", "price",
   "purchase_price", "shop_id", "id", "metadata"}

FieldDefault(field) ==
  CASE field = "exists" -> FALSE
    [] field \in {"price", "purchase_price"} -> Num(0)
    [] field = "metadata" -> EmptyMap
    [] OTHER -> Str("")

SerializeProductLookupResult(response) ==
  [field \in ProductLookupResultFields |->
     IF field \in DOMAIN response THEN response[field] ELSE FieldDefault(field)]

\* lines 277-324: after the product lookup
GetProductAfterProduct(request, env, product) ==
  IF product.kind = "throws"
    THEN CatchBlock("done", env, "Error getting product by stripe code:",
                    product.message)
  ELSE IF product.kind = "none"
    THEN Segment("done", env,
           << LogInfo("Product not found: stripe_code=" \o request.stripe_code
                      \o ", store_id=" \o request.store_id \o ", env=" \o env),
              CallbackResponse(ProductNotFound(request)) >>)
  ELSE Segment("done", env,
         << CallbackResponse(ProductFound(request, product.rec)) >>)

(***************************************************************************)
(* start() and stop(): the files read at startup, the credentials, the     *)
(* bind and the shutdown.                                                  *)
(***************************************************************************)
\* config.grpc, with the values of the README's environment
GrpcPort == 50051
ServerCertPath == "certs/grpc/server.crt"
ServerKeyPath == "certs/grpc/server.key"
CaCertPath == "certs/grpc/ca.crt"
\* path.join(__dirname, '../proto/store.proto')
ProtoPath == "proto/store.proto"

GrpcConfig(requireClientCert) ==
  [serverCertPath |-> ServerCertPath, serverKeyPath |-> ServerKeyPath,
   caCertPath |-> CaCertPath, requireClientCert |-> requireClientCert,
   port |-> GrpcPort]

\* The disk: for each path the content of the file, or Missing.
Missing == "<no such file>"
StoreProto == "package store; service StoreService"
OtherProto == "package other"
ServerCertPem == "CERTIFICATE server"
ServerKeyPem == "PRIVATE KEY server"
CaCertPem == "CERTIFICATE ca"

Disk(proto, cert, key, ca) ==
  (ProtoPath :> proto) @@ (ServerCertPath :> cert)
    @@ (ServerKeyPath :> key) @@ (CaCertPath :> ca)

Disks ==
  { Disk(proto, cert, key, ca) :
      proto \in {Missing, OtherProto, StoreProto},
      cert \in {Missing, ServerCertPem},
      key \in {Missing, ServerKeyPem},
      ca \in {Missing, CaCertPem} }

FullDisk == Disk(StoreProto, ServerCertPem, ServerKeyPem, CaCertPem)

existsSync(disk, path) == disk[path] # Missing
readFileSync(disk, path) == disk[path]

\* what a synchronous function of the class leaves: a value, or an Error
Returned(value) == [ok |-> TRUE, value |-> value]
Thrown(message) == [ok |-> FALSE, message |-> message]

\* lines 24-40: the descriptor is what the proto file declares
loadProto(disk) ==
  IF ~existsSync(disk, ProtoPath)
    THEN Thrown("Proto file not found: " \o ProtoPath)
    ELSE Returned(readFileSync(disk, ProtoPath))

\* grpc.ServerCredentials.createSsl(rootCerts, keyCertPairs, checkClientCertificate)
NoCredentials == [kind |-> "none"]
createSsl(rootCerts, keyCertPairs, checkClientCertificate) ==
  [kind |-> "ssl", rootCerts |-> rootCerts, keyCertPairs |-> keyCertPairs,
   checkClientCertificate |-> checkClientCertificate]

\* credentials built without looking for the CA certificate file
createCredentialsWithoutCaCheck(disk, grpcConfig) ==
  IF ~existsSync(disk, grpcConfig.serverCertPath)
    THEN Thrown("Server certificate not found: " \o grpcConfig.serverCertPath)
  ELSE IF ~existsSync(disk, grpcConfig.serverKeyPath)
    THEN Thrown("Server key not found: " \o grpcConfig.serverKeyPath)
  ELSE Returned(createSsl(readFileSync(disk, grpcConfig.caCertPath),
         << [cert_chain |-> readFileSync(disk, grpcConfig.serverCertPath),
             private_key |-> readFileSync(disk, grpcConfig.serverKeyPath)] >>,
         grpcConfig.requireClientCert))

\* credentials that verify peers against the server's own certificate and
\* never ask a peer for one
createCredentialsOwnCert(disk, grpcConfig) ==
  IF ~existsSync(disk, grpcConfig.serverCertPath)
    THEN Thrown("Server certificate not found: " \o grpcConfig.serverCertPath)
  ELSE IF ~existsSync(disk, grpcConfig.serverKeyPath)
    THEN Thrown("Server key not found: " \o grpcConfig.serverKeyPath)
  ELSE IF ~existsSync(disk, grpcConfig.caCertPath)
    THEN Thrown("CA certificate not found: " \o grpcConfig.caCertPath)
  ELSE Returned(createSsl(readFileSync(disk, grpcConfig.serverCertPath),
         << [cert_chain |-> readFileSync(disk, grpcConfig.serverCertPath),
             private_key |-> readFileSync(disk, grpcConfig.serverKeyPath)] >>,
         FALSE))

\* lines 45-85
createCredentials(disk, grpcConfig) ==
  IF ~existsSync(disk, grpcConfig.serverCertPath)
    THEN Thrown("Server certificate not found: " \o grpcConfig.serverCertPath)
  ELSE IF ~existsSync(disk, grpcConfig.serverKeyPath)
    THEN Thrown("Server key not found: " \o grpcConfig.serverKeyPath)
  ELSE IF ~existsSync(disk, grpcConfig.caCertPath)
    THEN Thrown("CA certificate not found: " \o grpcConfig.caCertPath)
  ELSE Returned(createSsl(readFileSync(disk, grpcConfig.caCertPath),
         << [cert_chain |-> readFileSync(disk, grpcConfig.serverCertPath),
             private_key |-> readFileSync(disk, grpcConfig.serverKeyPath)] >>,
         grpcConfig.requireClientCert))

\* The GrpcServer object and what it has done: lines 15-19 leave this.server
\* null; `steps` keeps the calls start() and stop() made, in order.
NewGrpcServer(disk, requireClientCert) ==
  [disk |-> disk, config |-> GrpcConfig(requireClientCert),
   server |-> "null", protoDescriptor |-> "null", services |-> {},
   credentials |-> NoCredentials,
   bind |-> "none", bindError |-> "", serving |-> FALSE,
   shutdown |-> "none", shutdownError |-> "",
   startPromise |-> "none", startError |-> "",
   stopPromise |-> "none", uncaught |-> "",
   steps |-> << >>, log |-> << >>,
   connections |-> {}, refused |-> {}]

\* lines 378-381: the catch block of start() logs and rethrows, which rejects
\* the promise of the async function
StartRejects(l, message) ==
  [l EXCEPT !.startPromise = "rejected", !.startError = message,
            !.log = Append(@, LogError("Error starting gRPC server:", message))]

\* lines 337-382, up to the return of start(): nothing in it awaits
StartBody(l) ==
  LET proto == loadProto(l.disk)
      loaded == [l EXCEPT !.protoDescriptor = proto.value,
                          !.server = "created",
                          !.steps = @ \o <<"loadProto", "new grpc.Server">>]
      added == [loaded EXCEPT !.services = RpcNames,
                              !.steps = @ \o <<"addService">>]
      credentials == createCredentials(l.disk, l.config)
  IN IF ~proto.ok
       THEN StartRejects(l, proto.message)
     ELSE IF proto.value # StoreProto
       THEN StartRejects(loaded, "StoreService not found in proto definition")
     ELSE IF ~credentials.ok
       THEN StartRejects(added, credentials.message)
     ELSE [added EXCEPT !.credentials = credentials.value,
                        !.bind = "pending",
                        !.startPromise = "fulfilled",
                        !.steps = @ \o <<"createCredentials", "bindAsync">>]

\* a bind callback that starts the server whatever the bind did
BindCallbackStartingAnyway(l, error) ==
  [l EXCEPT !.bind = IF error = "" THEN "bound" ELSE "failed",
            !.bindError = error,
            !.serving = TRUE,
            !.steps = @ \o <<"bindAsync callback", "server.start">>]

\* lines 366-377: the callback of bindAsync, run by the library once the bind
\* has ended, with error "" for null. It runs after start() has returned, so
\* what it throws leaves through the event loop as an uncaught exception.
BindCallback(l, error) ==
  IF error # ""
    THEN [l EXCEPT !.bind = "failed", !.bindError = error,
                   !.steps = @ \o <<"bindAsync callback">>,
                   !.log = Append(@, LogError("Failed to start gRPC server:", error)),
                   !.uncaught = error]
    ELSE [l EXCEPT !.bind = "bound",
                   !.serving = TRUE,
                   !.steps = @ \o <<"bindAsync callback", "server.start">>,
                   !.log = @ \o
                     << LogInfo("gRPC server started on port "
                                \o ToString(l.config.port) \o " with mTLS"),
                        LogInfo("Server certificate: " \o l.config.serverCertPath),
                        LogInfo("CA certificate: " \o l.config.caCertPath),
                        LogInfo("Client certificate required: "
                                \o StringOf(Bool(l.config.requireClientCert))) >>]

\* a stop() that resolves without waiting for the shutdown
StopResolvingAtOnce(l) ==
  IF l.server # "null"
    THEN [l EXCEPT !.stopPromise = "fulfilled", !.shutdown = "pending",
                   !.steps = @ \o <<"tryShutdown">>]
    ELSE [l EXCEPT !.stopPromise = "fulfilled"]

\* lines 387-398, up to the return of stop()
StopBody(l) ==
  IF l.server # "null"
    THEN [l EXCEPT !.stopPromise = "pending", !.shutdown = "pending",
                   !.steps = @ \o <<"tryShutdown">>]
    ELSE [l EXCEPT !.stopPromise = "fulfilled"]

\* lines 389-392: the callback of tryShutdown takes no argument, so an error
\* the library hands it is dropped, and the promise has no reject
TryShutdownCallback(l, error) ==
  [l EXCEPT !.shutdown = "done", !.shutdownError = error,
            !.stopPromise = "fulfilled",
            !.steps = @ \o <<"tryShutdown callback">>,
            !.log = Append(@, LogInfo("gRPC server stopped"))]

\* a server that has started without a failure and has not been stopped
ServingGrpcServer == BindCallback(StartBody(NewGrpcServer(FullDisk, TRUE)), "")

\* the server takes new connections and new calls
Accepting(l) == l.serving /\ l.shutdown = "none"

\* The peers that connect: without a certificate, with one signed by the
\* configured CA, with one signed by another CA.
PeerWithout == [certificate |-> "none", issuer |-> ""]
PeerSignedBy(ca) == [certificate |-> "CERTIFICATE client", issuer |-> ca]
Peers == {PeerWithout, PeerSignedBy(CaCertPem), PeerSignedBy("CERTIFICATE other ca")}

\* the TLS handshake under the credentials the server was bound with
HandshakeAccepts(credentials, peer) ==
  \/ ~credentials.checkClientCertificate
  \/ /\ peer.certificate # "none"
     /\ peer.issuer = credentials.rootCerts

(***************************************************************************)
(* The state.                                                              *)
(***************************************************************************)
VARIABLES
  calls,     \* per call: where its handler stands and what it has done
  shops,     \* the Store Directory's answers, as far as they have been read
  products,  \* the Product Catalog's answers, as far as they have been read
  now,       \* Date.now(), in milliseconds
  probe,     \* one function of the class on its own: what it is given, its result
  life       \* the GrpcServer object: its server, credentials and promises

vars == <<calls, shops, products, now, probe, life>>

\* a lookup that has not settled
Pending == [kind |-> "pending"]

IdleCall ==
  [pc |-> "idle", rpc |-> "", request |-> [project_id |-> "", store_id |-> ""],
   metadata |-> NoMetadata, env |-> "", events |-> << >>, escaped |-> FALSE,
   shop |-> Pending, product |-> Pending, after |-> {}]

\* the resolver's result before it has run
Unresolved == "?"

Init ==
  /\ calls = [c \in CallIds |-> IdleCall]
  /\ shops = EmptyMap
  /\ products = EmptyMap
  /\ now = StartMs
  /\ probe = [metadata |-> NoMetadata, env |-> Unresolved]
  /\ life = ServingGrpcServer

(***************************************************************************)
(* The collaborators' side. Their records do not change during a run; what *)
(* a collaborator holds for a key is fixed the first time the key is read. *)
(***************************************************************************)
\* shopService.getShopById(env, store_id): the outcomes the lookup can have
getShopById(env, storeId) ==
  IF <<env, storeId>> \in DOMAIN shops THEN {shops[<<env, storeId>>]}
  ELSE ShopOutcomes

\* productService.getProductById2(env, store_id, stripe_code)
getProductById2(env, storeId, stripeCode) ==
  IF <<env, storeId, stripeCode>> \in DOMAIN products
    THEN {products[<<env, storeId, stripeCode>>]}
    ELSE ProductOutcomes

Tick ==
  /\ now < StartMs + MaxTicks * TickMs
  /\ now' = now + TickMs
  /\ UNCHANGED <<calls, shops, products, probe, life>>

(***************************************************************************)
(* The server's side: the handlers, segment by segment.                    *)
(***************************************************************************)
\* the server hands a call to its handler; calls are numbered as they come,
\* and `after` keeps which calls had been answered by then
\* a server that remembers the stores it has looked up and asks the store
\* collaborator only for the others
DispatchCached(c, rpc, request, metadata, seg) ==
  LET Asked(e) == e.ev # "getShopById" \/ <<e.env, e.store_id>> \notin DOMAIN shops
  IN /\ Accepting(life)
     /\ \A d \in CallIds : d < c => calls[d].pc # "idle"
     /\ calls' = [calls EXCEPT ![c] =
          [pc |-> seg.pc, rpc |-> rpc, request |-> request, metadata |-> metadata,
           env |-> seg.env, events |-> SelectSeq(seg.events, Asked),
           escaped |-> seg.escaped,
           shop |-> Pending, product |-> Pending,
           after |-> {d \in CallIds : calls[d].pc = "done"}]]
     /\ UNCHANGED <<shops, products, now, probe, life>>

\* a server that keeps the resolved environment in a field of its own, which
\* every call in flight then reads
DispatchSharedEnv(c, rpc, request, metadata, seg) ==
  /\ Accepting(life)
  /\ \A d \in CallIds : d < c => calls[d].pc # "idle"
  /\ calls' = [d \in CallIds |->
       IF d = c
         THEN [pc |-> seg.pc, rpc |-> rpc, request |-> request,
               metadata |-> metadata, env |-> seg.env, events |-> seg.events,
               escaped |-> seg.escaped, shop |-> Pending, product |-> Pending,
               after |-> {e \in CallIds : calls[e].pc = "done"}]
         ELSE IF seg.pc = "done" \/ calls[d].pc \in {"idle", "done"}
           THEN calls[d]
           ELSE [calls[d] EXCEPT !.env = seg.env]]
  /\ UNCHANGED <<shops, products, now, probe, life>>

Dispatch(c, rpc, request, metadata, seg) ==
  /\ Accepting(life)
  /\ \A d \in CallIds : d < c => calls[d].pc # "idle"
  /\ calls' = [calls EXCEPT ![c] =
       [pc |-> seg.pc, rpc |-> rpc, request |-> request, metadata |-> metadata,
        env |-> seg.env, events |-> seg.events, escaped |-> seg.escaped,
        shop |-> Pending, product |-> Pending,
        after |-> {d \in CallIds : calls[d].pc = "done"}]]
  /\ UNCHANGED <<shops, products, now, probe, life>>

\* the store lookup of call c settles with outcome o, and the handler goes on
ShopSettles(c, o, seg) ==
  /\ shops' = MapPut(shops, <<calls[c].env, calls[c].request.store_id>>, o)
  /\ calls' = [calls EXCEPT ![c].pc = seg.pc, ![c].shop = o,
                            ![c].events = @ \o seg.events,
                            ![c].escaped = seg.escaped]
  /\ UNCHANGED <<products, now, probe, life>>

verifyStoreAccess(c) ==
  /\ calls[c].pc = "idle"
  /\ \E p \in ProjectIdsOnWire, s \in StoreIdsOnWire, md \in MetadataSet :
       LET request == DecodeRequest("VerifyStoreAccess", p, s, <<>>)
       IN Dispatch(c, "VerifyStoreAccess", request, md,
                   VerifyStoreAccessStart(request, md))

verifyStoreAccessResumes(c) ==
  /\ calls[c].pc = "awaitShop"
  /\ calls[c].rpc = "VerifyStoreAccess"
  /\ \E o \in getShopById(calls[c].env, calls[c].request.store_id) :
       ShopSettles(c, o,
         VerifyStoreAccessResume(calls[c].request, calls[c].env, o))

getStoreInfo(c) ==
  /\ calls[c].pc = "idle"
  /\ \E p \in ProjectIdsOnWire, s \in StoreIdsOnWire, md \in MetadataSet :
       LET request == DecodeRequest("GetStoreInfo", p, s, <<>>)
       IN Dispatch(c, "GetStoreInfo", request, md,
                   GetStoreInfoStart(request, md))

getStoreInfoResumes(c) ==
  /\ calls[c].pc = "awaitShop"
  /\ calls[c].rpc = "GetStoreInfo"
  /\ \E o \in getShopById(calls[c].env, calls[c].request.store_id) :
       ShopSettles(c, o,
         GetStoreInfoResume(calls[c].request, calls[c].env, o, now))

getProductByStripeCode(c) ==
  /\ calls[c].pc = "idle"
  /\ \E p \in ProjectIdsOnWire, s \in StoreIdsOnWire, sc \in StripeCodesOnWire,
        md \in MetadataSet :
       LET request == DecodeRequest("GetProductByStripeCode", p, s, sc)
       IN Dispatch(c, "GetProductByStripeCode", request, md,
                   GetProductByStripeCodeStart(request, md))

getProductByStripeCodeResumes(c) ==
  /\ calls[c].pc = "awaitShop"
  /\ calls[c].rpc = "GetProductByStripeCode"
  /\ \E o \in getShopById(calls[c].env, calls[c].request.store_id) :
       ShopSettles(c, o,
         GetProductAfterShop(calls[c].request, calls[c].env, o))

getProductByStripeCodeFinishes(c) ==
  /\ calls[c].pc = "awaitProduct"
  /\ \E o \in getProductById2(calls[c].env, calls[c].request.store_id,
                              calls[c].request.stripe_code) :
       /\ products' = MapPut(products,
            <<calls[c].env, calls[c].request.store_id,
              calls[c].request.stripe_code>>, o)
       /\ LET seg == GetProductAfterProduct(calls[c].request, calls[c].env, o)
          IN calls' = [calls EXCEPT
               ![c].pc = seg.pc, ![c].product = o,
               ![c].events = @ \o seg.events, ![c].escaped = seg.escaped]
       /\ UNCHANGED <<shops, now, probe, life>>

Next ==
  \/ \E c \in CallIds : verifyStoreAccess(c)
  \/ \E c \in CallIds : verifyStoreAccessResumes(c)
  \/ \E c \in CallIds : getStoreInfo(c)
  \/ \E c \in CallIds : getStoreInfoResumes(c)
  \/ \E c \in CallIds : getProductByStripeCode(c)
  \/ \E c \in CallIds : getProductByStripeCodeResumes(c)
  \/ \E c \in CallIds : getProductByStripeCodeFinishes(c)
  \/ Tick

Spec == Init /\ [][Next]_vars

(***************************************************************************)
(* The resolver on its own, over every metadata of up to MaxValues values  *)
(* per key.                                                                *)
(***************************************************************************)
HeaderValues == {"prod", "master", "demo", "PROD", "bogus", ""}

ValueLists == UNION {[1..n -> HeaderValues] : n \in 0..MaxValues}

InitResolver ==
  /\ calls = [c \in CallIds |-> IdleCall]
  /\ shops = EmptyMap
  /\ products = EmptyMap
  /\ now = StartMs
  /\ \E e \in ValueLists, x \in ValueLists :
       probe = [metadata |-> MetadataOf(e, x), env |-> Unresolved]
  /\ life = ServingGrpcServer

Resolve ==
  /\ probe.env = Unresolved
  /\ probe' = [probe EXCEPT !.env = getEnvironmentFromMetadata(probe.metadata)]
  /\ UNCHANGED <<calls, shops, products, now, life>>

NextResolver == Resolve

SpecResolver == InitResolver /\ [][NextResolver]_vars

(***************************************************************************)
(* The lifecycle on its own: the process constructs the server over some   *)
(* disk and configuration, calls start() once and stop() once; peers       *)
(* connect and call while the server accepts.                              *)
(***************************************************************************)
BindErrors == {"listen EADDRINUSE: address already in use 0.0.0.0:50051"}
ShutdownErrors == {"Server shutdown failed"}

InitLifecycle ==
  /\ calls = [c \in CallIds |-> IdleCall]
  /\ shops = EmptyMap
  /\ products = EmptyMap
  /\ now = StartMs
  /\ probe = [metadata |-> NoMetadata, env |-> Unresolved]
  /\ \E disk \in Disks, requireClientCert \in BOOLEAN :
       life = NewGrpcServer(disk, requireClientCert)

start ==
  /\ life.startPromise = "none"
  /\ life' = StartBody(life)
  /\ UNCHANGED <<calls, shops, products, now, probe>>

\* the library ends the bind and runs the callback it was given
bindAsyncCallback ==
  /\ life.bind = "pending"
  /\ \E error \in {""} \cup BindErrors : life' = BindCallback(life, error)
  /\ UNCHANGED <<calls, shops, products, now, probe>>

stop ==
  /\ life.stopPromise = "none"
  /\ life' = StopBody(life)
  /\ UNCHANGED <<calls, shops, products, now, probe>>

\* tryShutdown ends once no call is in flight, and runs the callback it was
\* given
tryShutdownCallback ==
  /\ life.shutdown = "pending"
  /\ \A c \in CallIds : calls[c].pc \in {"idle", "done"}
  /\ \E error \in {""} \cup ShutdownErrors :
       life' = TryShutdownCallback(life, error)
  /\ UNCHANGED <<calls, shops, products, now, probe>>

\* a peer opens a connection: the handshake takes it or refuses it
connect(peer) ==
  /\ Accepting(life)
  /\ peer \notin life.connections \cup life.refused
  /\ life' = IF HandshakeAccepts(life.credentials, peer)
               THEN [life EXCEPT !.connections = @ \cup {peer}]
               ELSE [life EXCEPT !.refused = @ \cup {peer}]
  /\ UNCHANGED <<calls, shops, products, now, probe>>

\* a connected peer calls VerifyStoreAccess
serve(c) ==
  /\ calls[c].pc = "idle"
  /\ life.connections # {}
  /\ \E s \in StoreIdsOnWire :
       LET request == DecodeRequest("VerifyStoreAccess", <<"p1">>, s, <<>>)
       IN Dispatch(c, "VerifyStoreAccess", request, NoMetadata,
                   VerifyStoreAccessStart(request, NoMetadata))

NextLifecycle ==
  \/ start
  \/ bindAsyncCallback
  \/ stop
  \/ tryShutdownCallback
  \/ \E peer \in Peers : connect(peer)
  \/ \E c \in CallIds : serve(c)
  \/ \E c \in CallIds : verifyStoreAccessResumes(c)

SpecLifecycle == InitLifecycle /\ [][NextLifecycle]_vars

\* The event loop runs a callback that is ready; nothing makes a collaborator
\* answer a lookup.
SpecLifecycleFair ==
  /\ InitLifecycle /\ [][NextLifecycle]_vars
  /\ WF_vars(bindAsyncCallback)
  /\ WF_vars(tryShutdownCallback)

(***************************************************************************)
(* getStoreInfo's answer for a found store on its own, over store records  *)
(* that carry or lack each of the fields the handler reads.                *)
(***************************************************************************)
WideShopRecords ==
  { [id |-> Str("shop-1"), name |-> Str("Kiosk"), status |-> status,
     address |-> address, contact_no |-> contact, shop_admin_email |-> email,
     shopType |-> shopType, updated_at |-> updatedAt, owner |-> owner] :
      status \in {Undefined, Str("open"), Str("closed")},
      address \in {Undefined, Str("1 Main St")},
      contact \in {Undefined, Str("555-0100")},
      email \in {Undefined, Str("admin@shop.example")},
      shopType \in {Undefined, Str("kiosk")},
      updatedAt \in {Undefined, Num(0), Num(1500), Num(5999)},
      owner \in {Undefined, Str("ann")} }

InitStoreInfo ==
  /\ calls = [c \in CallIds |-> IdleCall]
  /\ shops = EmptyMap
  /\ products = EmptyMap
  /\ now \in {StartMs + k * TickMs : k \in 0..MaxTicks}
  /\ life = ServingGrpcServer
  /\ \E rec \in WideShopRecords, md \in MetadataSet :
       probe = [request |-> [project_id |-> "p1", store_id |-> "s1"],
                metadata |-> md, shop |-> Found(rec),
                events |-> << >>, answered |-> FALSE]

\* lines 192-228: the handler goes on with the record the lookup resolved with
AnswerStoreInfo ==
  /\ ~probe.answered
  /\ probe' = [probe EXCEPT
       !.events = GetStoreInfoResume(probe.request,
                    getEnvironmentFromMetadata(probe.metadata),
                    probe.shop, now).events,
       !.answered = TRUE]
  /\ UNCHANGED <<calls, shops, products, now, life>>

NextStoreInfo == AnswerStoreInfo

SpecStoreInfo == InitStoreInfo /\ [][NextStoreInfo]_vars

(***************************************************************************)
(* getProductByStripeCode's answer for a found product on its own, over    *)
(* product records that carry or lack each of the fields the handler       *)
(* reads.                                                                  *)
(***************************************************************************)
ExampleMetadata == Obj(<< <<"a", Num(1)>>, <<"b", Obj(<< <<"x", Num(2)>> >>)>> >>)
ShadowingMetadata ==
  Obj(<< <<"units", Num(5)>>, <<"isVending", Str("yes")>>,
         <<"availableItems", Num(9)>> >>)
MixedMetadata ==
  Obj(<< <<"tags", Arr(<< Num(1), Num(2) >>)>>, <<"flag", Bool(TRUE)>>,
         <<"note", Str("hi")>> >>)

FreeFormMetadata ==
  {Undefined, Str("n/a"), ExampleMetadata, ShadowingMetadata, MixedMetadata}

WideProductRecords ==
  { [stripeCode |-> IF full THEN Str("c9") ELSE Undefined,
     title |-> IF full THEN Str("Cola") ELSE Undefined,
     category |-> IF full THEN Str("drinks") ELSE Undefined,
     picture |-> IF full THEN Str("cola.png") ELSE Undefined,
     price |-> IF full THEN Num(250) ELSE Undefined,
     purchasePrice |-> IF full THEN Num(100) ELSE Undefined,
     shopId |-> IF full THEN Str("shop-9") ELSE Undefined,
     _id |-> oid, id |-> id, metadata |-> metadata,
     units |-> units, isVending |-> isVending,
     availableItems |-> availableItems] :
      full \in BOOLEAN,
      oid \in {Undefined, Str("o1")},
      id \in {Undefined, Str("i1")},
      metadata \in FreeFormMetadata,
      units \in {Undefined, Num(0), Num(3)},
      isVending \in {Undefined, Bool(FALSE), Bool(TRUE)},
      availableItems \in {Undefined, Num(0), Num(7)} }

InitProduct ==
  /\ calls = [c \in CallIds |-> IdleCall]
  /\ shops = EmptyMap
  /\ products = EmptyMap
  /\ now = StartMs
  /\ life = ServingGrpcServer
  /\ \E rec \in WideProductRecords :
       probe = [request |-> [project_id |-> "p1", store_id |-> "s1",
                             stripe_code |-> "c1"],
                metadata |-> NoMetadata, product |-> Found(rec),
                events |-> << >>, answered |-> FALSE]

\* lines 275-324: the handler goes on with the record the lookup resolved with
AnswerProduct ==
  /\ ~probe.answered
  /\ probe' = [probe EXCEPT
       !.events = GetProductAfterProduct(probe.request,
                    getEnvironmentFromMetadata(probe.metadata),
                    probe.product).events,
       !.answered = TRUE]
  /\ UNCHANGED <<calls, shops, products, now, life>>

NextProduct == AnswerProduct

SpecProduct == InitProduct /\ [][NextProduct]_vars

(***************************************************************************)
(* Reading a call's history.                                               *)
(***************************************************************************)
IsCallback(e) == e.ev = "callback"
IsShopLookup(e) == e.ev = "getShopById"
IsProductLookup(e) == e.ev = "getProductById2"
IsErrorLog(e) == e.ev = "log" /\ e.level = "error"

Started(c) == calls[c].pc # "idle"
Done(c) == calls[c].pc = "done"
Callbacks(c) == SelectSeq(calls[c].events, IsCallback)
ShopLookups(c) == SelectSeq(calls[c].events, IsShopLookup)
ProductLookups(c) == SelectSeq(calls[c].events, IsProductLookup)

\* a required identifier of the call's request is empty
LacksIdentifier(c) ==
  \/ calls[c].request.project_id = ""
  \/ calls[c].request.store_id = ""
  \/ /\ calls[c].rpc = "GetProductByStripeCode"
     /\ calls[c].request.stripe_code = ""

(***************************************************************************)
(* C1. A call whose request lacks a required identifier (project_id,       *)
(* store_id, and stripe_code for GetProductByStripeCode), empty or left    *)
(* out, ends with an InvalidArgument error and neither collaborator is     *)
(* asked during it, whatever its metadata.                                 *)
(***************************************************************************)
C1_InvalidArgumentBeforeLookup ==
  \A c \in CallIds :
    Started(c) /\ LacksIdentifier(c) =>
      /\ Done(c)
      /\ Len(Callbacks(c)) = 1
      /\ ~Callbacks(c)[1].ok
      /\ Callbacks(c)[1].code = "INVALID_ARGUMENT"
      /\ Len(ShopLookups(c)) = 0
      /\ Len(ProductLookups(c)) = 0

C1_Witness ==
  /\ calls[1].rpc = "VerifyStoreAccess" /\ calls[1].request.project_id = ""
  /\ calls[1].request.store_id = "s1" /\ calls[1].metadata # NoMetadata
  /\ Done(1)
  /\ calls[2].rpc = "GetProductByStripeCode" /\ calls[2].request.project_id = "p1"
  /\ calls[2].request.store_id = "s1" /\ calls[2].request.stripe_code = ""
  /\ Done(2)

(***************************************************************************)
(* C2. GetProductByStripeCode asks the Product Catalog only after the      *)
(* store lookup of the same call has resolved with a record; when the      *)
(* store lookup resolves with no record or throws, the call makes no       *)
(* product lookup.                                                         *)
(***************************************************************************)
C2_ProductLookupOnlyAfterStoreFound ==
  \A c \in CallIds :
    /\ \A i \in DOMAIN calls[c].events :
         IsProductLookup(calls[c].events[i]) =>
           /\ calls[c].shop.kind = "record"
           /\ \E j \in 1..(i - 1) : IsShopLookup(calls[c].events[j])
    /\ calls[c].shop.kind \in {"none", "throws"} => Len(ProductLookups(c)) = 0

C2_Witness ==
  /\ calls[1].rpc = "GetProductByStripeCode" /\ calls[1].shop.kind = "none"
  /\ Done(1)
  /\ calls[2].rpc = "GetProductByStripeCode" /\ calls[2].shop.kind = "record"
  /\ Len(ProductLookups(2)) = 1

(***************************************************************************)
(* C3. Precedence of the environment resolver: when the metadata carries   *)
(* an `env` entry, its first value is the candidate and `x-environment` is *)
(* ignored; when `env` is absent, the first value of `x-environment` is    *)
(* the candidate; without either the result is demo. A candidate resolves  *)
(* to itself when it is prod or master and to demo otherwise.              *)
(***************************************************************************)
C3_Resolution(candidate) ==
  IF candidate \in {"prod", "master"} THEN candidate ELSE "demo"

C3_EnvironmentPrecedence ==
  probe.env # Unresolved =>
    LET md == probe.metadata
    IN /\ md.env # << >> => probe.env = C3_Resolution(md.env[1])
       /\ md.env = << >> /\ md.xenv # << >> =>
            probe.env = C3_Resolution(md.xenv[1])
       /\ md.env = << >> /\ md.xenv = << >> => probe.env = "demo"
       /\ md = MetadataOf(<<"prod">>, <<"demo">>) => probe.env = "prod"
       /\ md = MetadataOf(<<"bogus">>, <<"prod">>) => probe.env = "demo"
       /\ md = MetadataOf(<< >>, <<"master">>) => probe.env = "master"

C3_Witness ==
  /\ probe.metadata = MetadataOf(<< >>, <<"master">>)
  /\ probe.env = "master"

(***************************************************************************)
(* C4. The resolver falls back to `x-environment` whenever the `env` entry *)
(* is absent or empty: with `env` present as the empty string and          *)
(* `x-environment` prod or master, the result is the `x-environment`       *)
(* value.                                                                  *)
(***************************************************************************)
C4_FallbackWhenEnvEmpty ==
  probe.env # Unresolved =>
    LET md == probe.metadata
    IN (md.env = << >> \/ md.env[1] = "") /\ md.xenv # << >>
       /\ md.xenv[1] \in {"prod", "master"}
         => probe.env = md.xenv[1]

(***************************************************************************)
(* C5. Every environment handed to a store or product lookup, and every    *)
(* `environment` of a GetStoreInfo response, is prod, master or demo: the  *)
(* candidate value of the call's metadata when that is exactly `prod` or   *)
(* `master` (case-sensitive), and demo for every other candidate, absent   *)
(* and empty included.                                                     *)
(***************************************************************************)
C5_Candidate(md) ==
  IF md.env # << >> THEN <<md.env[1]>>
  ELSE IF md.xenv # << >> THEN <<md.xenv[1]>>
  ELSE << >>

C5_Expected(md) ==
  IF C5_Candidate(md) \in {<<"prod">>, <<"master">>}
    THEN C5_Candidate(md)[1] ELSE "demo"

C5_EnvironmentNormalized ==
  \A c \in CallIds :
    \A i \in DOMAIN calls[c].events :
      LET e == calls[c].events[i]
      IN /\ IsShopLookup(e) \/ IsProductLookup(e) =>
              /\ e.env \in Environments
              /\ e.env = C5_Expected(calls[c].metadata)
         /\ IsCallback(e) /\ e.ok /\ calls[c].rpc = "GetStoreInfo" =>
              /\ e.response.environment \in Environments
              /\ e.response.environment = C5_Expected(calls[c].metadata)

C5_Witness ==
  /\ calls[1].rpc = "GetStoreInfo" /\ Done(1)
  /\ calls[1].metadata.env = <<"PROD">>
  /\ Len(Callbacks(1)) = 1 /\ Callbacks(1)[1].ok
  /\ Callbacks(1)[1].response.environment = "demo"
  /\ calls[2].rpc = "GetProductByStripeCode" /\ Done(2)
  /\ calls[2].metadata.env = <<"prod">>
  /\ Len(ProductLookups(2)) = 1 /\ ProductLookups(2)[1].env = "prod"

(***************************************************************************)
(* C6. For a valid VerifyStoreAccess request whose store lookup resolves,  *)
(* has_access is true exactly when the lookup gave a record whose status   *)
(* is not `closed`; the message is `Store {store_id} not found` without a  *)
(* record, `Store {store_id} is closed` for a closed store and `Access     *)
(* granted` otherwise; store_id and project_id are the request's.          *)
(***************************************************************************)
C6_VerifyStoreAccessOutcome ==
  \A c \in CallIds :
    /\ calls[c].rpc = "VerifyStoreAccess"
    /\ ~LacksIdentifier(c)
    /\ calls[c].shop.kind \in {"none", "record"}
    => /\ Len(Callbacks(c)) = 1
       /\ Callbacks(c)[1].ok
       /\ LET r == Callbacks(c)[1].response
              sid == calls[c].request.store_id
              closed == /\ calls[c].shop.kind = "record"
                        /\ calls[c].shop.rec.status = Str("closed")
          IN /\ r.has_access = (calls[c].shop.kind = "record" /\ ~closed)
             /\ calls[c].shop.kind = "none" =>
                  r.message = "Store " \o sid \o " not found"
             /\ closed => r.message = "Store " \o sid \o " is closed"
             /\ r.has_access => r.message = "Access granted"
             /\ r.store_id = sid
             /\ r.project_id = calls[c].request.project_id

C6_Witness ==
  /\ calls[1].rpc = "VerifyStoreAccess" /\ Done(1)
  /\ calls[1].shop.kind = "record"
  /\ calls[1].shop.rec.status = Str("closed")
  /\ calls[2].rpc = "VerifyStoreAccess" /\ Done(2)
  /\ calls[2].shop.kind = "record"
  /\ calls[2].shop.rec.status = Str("open")
  /\ Callbacks(2)[1].response.has_access

(***************************************************************************)
(* C7. A not-found outcome is never an RPC error: a valid call of any of   *)
(* the three RPCs whose lookups did not throw and one of which resolved    *)
(* with no record is answered without an error, by a response whose flag   *)
(* (has_access for VerifyStoreAccess, exists for the other two) is false.  *)
(***************************************************************************)
C7_NotFoundIsNoError ==
  \A c \in CallIds :
    /\ Done(c)
    /\ ~LacksIdentifier(c)
    /\ calls[c].shop.kind # "throws" /\ calls[c].product.kind # "throws"
    /\ calls[c].shop.kind = "none" \/ calls[c].product.kind = "none"
    => /\ Len(Callbacks(c)) = 1
       /\ Callbacks(c)[1].ok
       /\ IF calls[c].rpc = "VerifyStoreAccess"
            THEN ~Callbacks(c)[1].response.has_access
            ELSE ~Callbacks(c)[1].response.exists

C7_Witness ==
  /\ calls[1].rpc = "GetProductByStripeCode" /\ Done(1)
  /\ calls[1].shop.kind = "none"
  /\ calls[2].rpc = "GetProductByStripeCode" /\ Done(2)
  /\ calls[2].shop.kind = "record" /\ calls[2].product.kind = "none"

(***************************************************************************)
(* C8. When a collaborator lookup of a call throws, the call ends with an  *)
(* Internal error whose message is `Internal error: ` followed by the      *)
(* thrown error's message; the error is logged at error severity before    *)
(* the answer, no response is sent, and the exception stays inside the     *)
(* handler.                                                                *)
(***************************************************************************)
C8_ThrownMessage(c) ==
  IF calls[c].shop.kind = "throws" THEN calls[c].shop.message
  ELSE calls[c].product.message

C8_CollaboratorErrorIsInternal ==
  \A c \in CallIds :
    calls[c].shop.kind = "throws" \/ calls[c].product.kind = "throws" =>
      LET n == Len(calls[c].events)
      IN /\ Done(c)
         /\ ~calls[c].escaped
         /\ Callbacks(c) =
              << CallbackError("INTERNAL", "Internal error: " \o C8_ThrownMessage(c)) >>
         /\ n >= 2
         /\ IsCallback(calls[c].events[n])
         /\ IsErrorLog(calls[c].events[n - 1])
         /\ calls[c].events[n - 1].message = C8_ThrownMessage(c)

C8_Witness ==
  /\ calls[1].rpc = "VerifyStoreAccess" /\ calls[1].shop.kind = "throws"
  /\ calls[2].rpc = "GetProductByStripeCode" /\ calls[2].shop.kind = "record"
  /\ calls[2].product.kind = "throws"

(***************************************************************************)
(* C9. Idempotence: of two consecutive calls of the same RPC with the same *)
(* request and the same metadata, the second is answered exactly as the    *)
(* first, in every field, GetStoreInfo's updated_at included.              *)
(***************************************************************************)
C9_Repeats(c, d) ==
  /\ c \in calls[d].after
  /\ Done(d)
  /\ calls[c].rpc = calls[d].rpc
  /\ calls[c].request = calls[d].request
  /\ calls[c].metadata = calls[d].metadata

C9_IdenticalResponses ==
  \A c, d \in CallIds : C9_Repeats(c, d) => Callbacks(c) = Callbacks(d)

\* the store record of the call carries no last-updated timestamp the
\* handler takes (none, or a falsy one such as 0)
C9_ClockStamped(c) ==
  /\ calls[c].rpc = "GetStoreInfo"
  /\ calls[c].shop.kind = "record"
  /\ ~Truthy(calls[c].shop.rec.updated_at)

C9_ApartFromClock(c) ==
  IF C9_ClockStamped(c)
    THEN << [Callbacks(c)[1] EXCEPT !.response.updated_at = 0] >>
    ELSE Callbacks(c)

\* C9 as amended: the two answers are identical in every field, except
\* updated_at of GetStoreInfo when the store record carries no last-updated
\* timestamp: that field is the wall clock's second at each call.
C9_IdenticalApartFromClock ==
  \A c, d \in CallIds :
    C9_Repeats(c, d) => C9_ApartFromClock(c) = C9_ApartFromClock(d)

C9_Witness ==
  /\ C9_Repeats(1, 2)
  /\ C9_ClockStamped(1)
  /\ Callbacks(1)[1].response.updated_at # Callbacks(2)[1].response.updated_at

(***************************************************************************)
(* C10. project_id does not influence access: two VerifyStoreAccess calls  *)
(* that differ only in their non-empty project_id issue the same store     *)
(* lookup and get the same has_access and message; each response carries   *)
(* its own request's project_id.                                           *)
(***************************************************************************)
C10_ProjectIdNotUsed ==
  \A c, d \in CallIds :
    /\ c # d
    /\ Done(c) /\ Done(d)
    /\ calls[c].rpc = "VerifyStoreAccess" /\ calls[d].rpc = "VerifyStoreAccess"
    /\ ~LacksIdentifier(c) /\ ~LacksIdentifier(d)
    /\ calls[c].request.store_id = calls[d].request.store_id
    /\ calls[c].metadata = calls[d].metadata
    /\ calls[c].request.project_id # calls[d].request.project_id
    => /\ ShopLookups(c) = ShopLookups(d)
       /\ Len(ShopLookups(c)) = 1
       /\ Callbacks(c)[1].ok = Callbacks(d)[1].ok
       /\ Callbacks(c)[1].ok =>
            /\ Callbacks(c)[1].response.has_access
                 = Callbacks(d)[1].response.has_access
            /\ Callbacks(c)[1].response.message = Callbacks(d)[1].response.message
            /\ Callbacks(c)[1].response.store_id
                 = Callbacks(d)[1].response.store_id
            /\ Callbacks(c)[1].response.project_id = calls[c].request.project_id
            /\ Callbacks(d)[1].response.project_id = calls[d].request.project_id
       /\ ~Callbacks(c)[1].ok => Callbacks(c) = Callbacks(d)

C10_Witness ==
  /\ Done(1) /\ Done(2)
  /\ calls[1].rpc = "VerifyStoreAccess" /\ calls[2].rpc = "VerifyStoreAccess"
  /\ calls[1].request.project_id = "p1" /\ calls[2].request.project_id = "p2"
  /\ calls[1].request.store_id = calls[2].request.store_id
  /\ calls[1].metadata = calls[2].metadata
  /\ Callbacks(1)[1].ok /\ Callbacks(1)[1].response.has_access
  /\ Callbacks(2)[1].ok /\ Callbacks(2)[1].response.has_access

(***************************************************************************)
(* C19. The answer of a valid GetStoreInfo call whose store lookup found   *)
(* no record has exists false, an empty name, an empty metadata map and    *)
(* updated_at 0; its store_id and project_id are the request's and its     *)
(* environment is the one resolved from the call's metadata.               *)
(***************************************************************************)
C19_StoreNotFoundDefaults ==
  \A c \in CallIds :
    /\ calls[c].rpc = "GetStoreInfo" /\ Done(c)
    /\ ~LacksIdentifier(c)
    /\ calls[c].shop.kind = "none"
    => /\ Len(Callbacks(c)) = 1
       /\ Callbacks(c)[1].ok
       /\ Callbacks(c)[1].response =
            [exists |-> FALSE,
             store_id |-> Str(calls[c].request.store_id),
             name |-> Str(""),
             environment |-> getEnvironmentFromMetadata(calls[c].metadata),
             project_id |-> calls[c].request.project_id,
             metadata |-> EmptyMap,
             updated_at |-> 0]

C19_Witness ==
  /\ calls[1].rpc = "GetStoreInfo" /\ Done(1)
  /\ calls[1].shop.kind = "none"
  /\ calls[1].request.project_id = "p2"
  /\ Callbacks(1)[1].response.environment = "prod"
  /\ now > StartMs

(***************************************************************************)
(* C20. The answer of a valid GetStoreInfo call whose store lookup found   *)
(* a record has exists true whatever the record's status (a closed store   *)
(* included); its store_id is the record's own id when the record has one  *)
(* and the requested store_id otherwise, its name is the record's name or  *)
(* the empty string, and its environment is the resolved one.              *)
(***************************************************************************)
C20_StoreFoundIdentity ==
  \A c \in CallIds :
    /\ calls[c].rpc = "GetStoreInfo" /\ Done(c)
    /\ ~LacksIdentifier(c)
    /\ calls[c].shop.kind = "record"
    => /\ Len(Callbacks(c)) = 1
       /\ Callbacks(c)[1].ok
       /\ Callbacks(c)[1].response.exists
       /\ Callbacks(c)[1].response.store_id =
            IF calls[c].shop.rec.id.t = "string" /\ calls[c].shop.rec.id.v # ""
              THEN calls[c].shop.rec.id
              ELSE Str(calls[c].request.store_id)
       /\ Callbacks(c)[1].response.name =
            IF calls[c].shop.rec.name.t = "string"
              THEN calls[c].shop.rec.name
              ELSE Str("")
       /\ Callbacks(c)[1].response.environment
            = getEnvironmentFromMetadata(calls[c].metadata)

C20_Witness ==
  /\ calls[1].rpc = "GetStoreInfo" /\ Done(1)
  /\ calls[1].shop.kind = "record"
  /\ calls[1].shop.rec.status = Str("closed")
  /\ Callbacks(1)[1].response.store_id = Str(calls[1].request.store_id)
  /\ calls[2].rpc = "GetStoreInfo" /\ Done(2)
  /\ calls[2].shop.kind = "record"
  /\ Callbacks(2)[1].response.store_id = Str("shop-1")
  /\ Callbacks(2)[1].response.store_id # Str(calls[2].request.store_id)
  /\ Callbacks(2)[1].response.environment = "prod"

(***************************************************************************)
(* C17. Nothing is cached: the store collaborator is asked exactly once by *)
(* every call that passed validation and by no other, so the number of     *)
(* store lookups is the number of such calls; the product collaborator is  *)
(* asked exactly once by every valid GetProductByStripeCode call whose     *)
(* store lookup returned a record and by no other call. This holds when    *)
(* calls repeat the same key.                                              *)
(***************************************************************************)
C17_PassedValidation(c) == Started(c) /\ ~LacksIdentifier(c)

C17_ReachedProduct(c) ==
  /\ C17_PassedValidation(c)
  /\ calls[c].rpc = "GetProductByStripeCode"
  /\ calls[c].shop.kind = "record"

C17_NoCaching ==
  /\ \A c \in CallIds :
       /\ Len(ShopLookups(c)) = IF C17_PassedValidation(c) THEN 1 ELSE 0
       /\ Len(ProductLookups(c)) = IF C17_ReachedProduct(c) THEN 1 ELSE 0
  /\ Len(ShopLookups(1)) + Len(ShopLookups(2))
       = Cardinality({c \in CallIds : C17_PassedValidation(c)})
  /\ Len(ProductLookups(1)) + Len(ProductLookups(2))
       = Cardinality({c \in CallIds : C17_ReachedProduct(c)})

C17_Witness ==
  /\ Done(1) /\ Done(2)
  /\ 1 \in calls[2].after
  /\ calls[1].rpc = "GetProductByStripeCode" /\ calls[2].rpc = "GetProductByStripeCode"
  /\ calls[1].request = calls[2].request
  /\ calls[1].metadata = calls[2].metadata
  /\ calls[1].shop.kind = "record" /\ calls[2].shop.kind = "record"
  /\ ShopLookups(1) = ShopLookups(2) /\ Len(ShopLookups(2)) = 1
  /\ ProductLookups(1) = ProductLookups(2) /\ Len(ProductLookups(2)) = 1

(***************************************************************************)
(* C16. Calls in flight together do not influence one another: what a call *)
(* has done so far (its lookups, its log lines and its answer) is what its *)
(* handler does alone from the call's own request, its own metadata and    *)
(* the answers its own lookups got; and while a call is suspended on a     *)
(* lookup, another call can be dispatched, can resume and can complete.    *)
(***************************************************************************)
C16_Clock == {StartMs + k * TickMs : k \in 0..MaxTicks}

\* the handler of one call run alone, on the answers shop and product of its
\* lookups (Pending: not answered yet) and the wall clock t
C16_Alone(rpc, request, metadata, shop, product, t) ==
  LET first ==
        CASE rpc = "VerifyStoreAccess" -> VerifyStoreAccessStart(request, metadata)
          [] rpc = "GetStoreInfo" -> GetStoreInfoStart(request, metadata)
          [] OTHER -> GetProductByStripeCodeStart(request, metadata)
      second ==
        CASE rpc = "VerifyStoreAccess" ->
               VerifyStoreAccessResume(request, first.env, shop)
          [] rpc = "GetStoreInfo" ->
               GetStoreInfoResume(request, first.env, shop, t)
          [] OTHER -> GetProductAfterShop(request, first.env, shop)
  IN IF first.pc = "done" \/ shop = Pending
       THEN first.events
     ELSE IF second.pc = "done" \/ product = Pending
       THEN first.events \o second.events
     ELSE first.events \o second.events
            \o GetProductAfterProduct(request, first.env, product).events

C16_Suspended(c) == calls[c].pc \in {"awaitShop", "awaitProduct"}

C16_ConcurrentCallsIndependent ==
  /\ \A c \in CallIds :
       Started(c) =>
         \E t \in C16_Clock :
           calls[c].events = C16_Alone(calls[c].rpc, calls[c].request,
                                       calls[c].metadata, calls[c].shop,
                                       calls[c].product, t)
  /\ C16_Suspended(1) /\ calls[2].pc = "idle" =>
       /\ ENABLED verifyStoreAccess(2)
       /\ ENABLED getStoreInfo(2)
       /\ ENABLED getProductByStripeCode(2)
  /\ \A c \in CallIds :
       /\ calls[c].pc = "awaitShop" =>
            ENABLED (\/ verifyStoreAccessResumes(c)
                     \/ getStoreInfoResumes(c)
                     \/ getProductByStripeCodeResumes(c))
       /\ calls[c].pc = "awaitProduct" => ENABLED getProductByStripeCodeFinishes(c)

\* call 2 came while call 1 was waiting for its product lookup, in another
\* environment, and was answered while call 1 still waits
C16_Witness ==
  /\ calls[1].pc = "awaitProduct"
  /\ calls[1].env = "prod"
  /\ Done(2) /\ calls[2].rpc = "GetStoreInfo"
  /\ calls[2].env = "demo"
  /\ calls[2].shop.kind = "record"
  /\ Callbacks(2)[1].ok

(***************************************************************************)
(* Reading the lifecycle's history.                                        *)
(***************************************************************************)
\* how many times start() or stop() made the step, and where it first did
Times(step) == Cardinality({i \in 1..Len(life.steps) : life.steps[i] = step})
Position(step) ==
  IF Times(step) = 0 THEN 0
  ELSE CHOOSE i \in 1..Len(life.steps) :
         /\ life.steps[i] = step
         /\ \A j \in 1..(i - 1) : life.steps[j] # step

\* the first of the three certificate files, in the order they are looked
\* for, that is not on the disk; "" when the three are there
FirstMissing ==
  IF life.disk[ServerCertPath] = Missing
    THEN "Server certificate not found: " \o ServerCertPath
  ELSE IF life.disk[ServerKeyPath] = Missing
    THEN "Server key not found: " \o ServerKeyPath
  ELSE IF life.disk[CaCertPath] = Missing
    THEN "CA certificate not found: " \o CaCertPath
  ELSE ""

InFlight(c) == calls[c].pc \in {"awaitShop", "awaitProduct"}

(***************************************************************************)
(* C11. The server is started (server.start) only after the contract was   *)
(* loaded, the credentials were built from the three certificate files and *)
(* the bind ended without an error, in that order; when a step has failed  *)
(* the server is never serving, and start() makes no step a second time.   *)
(***************************************************************************)
C11_StartupOrder ==
  /\ life.serving =>
       /\ 0 < Position("loadProto")
       /\ Position("loadProto") < Position("createCredentials")
       /\ Position("createCredentials") < Position("bindAsync")
       /\ Position("bindAsync") < Position("bindAsync callback")
       /\ Position("bindAsync callback") < Position("server.start")
       /\ life.protoDescriptor = StoreProto
       /\ life.credentials.kind = "ssl"
       /\ life.credentials.rootCerts = CaCertPem
       /\ life.credentials.keyCertPairs
            = << [cert_chain |-> ServerCertPem, private_key |-> ServerKeyPem] >>
       /\ life.bind = "bound" /\ life.bindError = ""
  /\ life.startPromise = "rejected" \/ life.bind = "failed" =>
       /\ ~life.serving
       /\ Times("server.start") = 0
  /\ life.startPromise = "rejected" => life.bind = "none"
  /\ \A i \in 1..Len(life.steps) : Times(life.steps[i]) = 1

C11_Witness ==
  /\ life.serving
  /\ life.steps = << "loadProto", "new grpc.Server", "addService",
                     "createCredentials", "bindAsync", "bindAsync callback",
                     "server.start" >>
  /\ Done(1)

(***************************************************************************)
(* C12. A failed bind reaches the caller of start(): the promise of        *)
(* start() is rejected with the bind error instead of resolved; and an     *)
(* error of the shutdown reaches the caller of stop() the same way.        *)
(***************************************************************************)
C12_LifecycleErrorsPropagate ==
  /\ life.bind = "failed" =>
       /\ life.startPromise = "rejected"
       /\ life.startError = life.bindError
  /\ life.shutdownError # "" => life.stopPromise = "rejected"

(***************************************************************************)
(* C13. When one of the server certificate, the server key and the CA      *)
(* certificate files is missing, createCredentials throws an error that    *)
(* names the first missing one in that order and yields no credentials;    *)
(* start() then fails before a bind is requested, and the server is never  *)
(* bound or serving.                                                       *)
(***************************************************************************)
C13_MissingFileFailsStart ==
  /\ FirstMissing # "" =>
       /\ ~createCredentials(life.disk, life.config).ok
       /\ createCredentials(life.disk, life.config).message = FirstMissing
       /\ life.credentials = NoCredentials
       /\ life.bind = "none" /\ Times("bindAsync") = 0
       /\ ~life.serving
  /\ /\ FirstMissing # ""
     /\ life.startPromise # "none"
     /\ life.disk[ProtoPath] = StoreProto
     => /\ life.startPromise = "rejected"
        /\ life.startError = FirstMissing
        /\ life.log[1] = LogError("Error starting gRPC server:", FirstMissing)

C13_Witness ==
  /\ life.disk = Disk(StoreProto, ServerCertPem, Missing, Missing)
  /\ life.startPromise = "rejected"
  /\ life.startError = "Server key not found: certs/grpc/server.key"
  /\ life.stopPromise = "fulfilled"

(***************************************************************************)
(* C14. Once stop() has been called on a serving server, no new call is    *)
(* dispatched to a handler, every call in flight runs on to its one        *)
(* callback, and the promise of stop() resolves only after every call in   *)
(* flight has completed.                                                   *)
(***************************************************************************)
C14_NoNewCall ==
  life.shutdown # "none" =>
    \A c \in CallIds : calls[c].pc = "idle" => calls'[c].pc = "idle"

C14_RunsOn ==
  \A c \in CallIds :
    InFlight(c) =>
      \/ calls'[c] = calls[c]
      \/ /\ calls'[c].pc = "done"
         /\ Len(SelectSeq(calls'[c].events, IsCallback)) = 1

C14_CooperativeShutdown ==
  /\ [][C14_NoNewCall /\ C14_RunsOn]_vars
  /\ [](\A c \in CallIds :
          calls[c].pc = "awaitShop" => ENABLED verifyStoreAccessResumes(c))
  /\ [](life.shutdown # "none" /\ life.stopPromise = "fulfilled" =>
          /\ life.shutdown = "done"
          /\ \A c \in CallIds : ~InFlight(c))

\* stop() was called while a call was in flight; the call has been answered
\* since and the other is still in flight, and the promise is still pending
C14_Witness ==
  /\ life.serving
  /\ life.shutdown = "pending" /\ life.stopPromise = "pending"
  /\ Done(1) /\ Callbacks(1)[1].ok
  /\ InFlight(2)

(***************************************************************************)
(* C15. Every stop() eventually resolves, also when the lookup of a call   *)
(* in flight never returns.                                                *)
(***************************************************************************)
C15_StopEventuallyResolves ==
  (life.stopPromise = "pending") ~> (life.stopPromise = "fulfilled")

(***************************************************************************)
(* C18. The credentials the server is bound with carry the CA certificate  *)
(* read from the configured CA path and the configured require-client-     *)
(* certificate flag unchanged. With the flag on, a connection is accepted  *)
(* only from a peer that presents a certificate signed by that CA; with    *)
(* the flag off no peer is refused, one without a certificate included.    *)
(***************************************************************************)
C18_PeerAuthentication ==
  /\ life.credentials # NoCredentials =>
       /\ life.credentials.rootCerts = readFileSync(life.disk, CaCertPath)
       /\ life.credentials.rootCerts # Missing
       /\ life.credentials.checkClientCertificate = life.config.requireClientCert
  /\ life.config.requireClientCert =>
       \A peer \in life.connections :
         /\ peer.certificate # "none"
         /\ peer.issuer = readFileSync(life.disk, CaCertPath)
  /\ ~life.config.requireClientCert => life.refused = {}
  /\ \A c \in CallIds : Started(c) => life.connections # {}

C18_Witness ==
  /\ life.config.requireClientCert
  /\ life.connections = {PeerSignedBy(CaCertPem)}
  /\ life.refused = {PeerWithout, PeerSignedBy("CERTIFICATE other ca")}
  /\ Done(1)

(***************************************************************************)
(* C21. For a found store the metadata map of the GetStoreInfo answer has  *)
(* exactly the five keys status, address, contact_no, shop_admin_email and *)
(* shopType, whatever other fields the record carries; each value is the   *)
(* record's field, shopType being `store` and the other four the empty     *)
(* string when the record lacks the field.                                 *)
(***************************************************************************)
C21_FieldOr(value, default) == IF value = Undefined THEN Str(default) ELSE value

C22_UpdatedAtFromRecord ==
  probe.answered =>
    probe.events[1].response.updated_at =
      IF probe.shop.rec.updated_at # Undefined
        THEN probe.shop.rec.updated_at.v \div 1000
        ELSE now \div 1000

(***************************************************************************)
(* C23. GetProductByStripeCode answers both not-found cases (no store      *)
(* record; a store record but no product record) with the same default     *)
(* result: exists false, stripe_code the requested one, title, category    *)
(* and picture empty, price 0, purchase_price 0, shop_id the requested     *)
(* store_id, the product identifier empty and metadata the empty map.      *)
(***************************************************************************)
C23_NotFoundCase(c) ==
  /\ calls[c].rpc = "GetProductByStripeCode" /\ Done(c)
  /\ ~LacksIdentifier(c)
  /\ \/ calls[c].shop.kind = "none"
     \/ calls[c].shop.kind = "record" /\ calls[c].product.kind = "none"

C23_ProductNotFoundDefaults ==
  \A c \in CallIds :
    C23_NotFoundCase(c) =>
      /\ Len(Callbacks(c)) = 1
      /\ Callbacks(c)[1].ok
      /\ Callbacks(c)[1].response =
           [exists |-> FALSE,
            stripe_code |-> Str(calls[c].request.stripe_code),
            title |-> Str(""), category |-> Str(""), picture |-> Str(""),
            price |-> Num(0), purchase_price |-> Num(0),
            shop_id |-> Str(calls[c].request.store_id),
            _id |-> Str(""), metadata |-> EmptyMap]

C23_Witness ==
  /\ C23_NotFoundCase(1) /\ calls[1].shop.kind = "none"
  /\ C23_NotFoundCase(2) /\ calls[2].product.kind = "none"
  /\ calls[1].request = calls[2].request
  /\ Callbacks(1)[1].response = Callbacks(2)[1].response

(***************************************************************************)
(* C24. When the store and the product are found, the answer of a valid    *)
(* GetProductByStripeCode call has exists true; stripe_code is the         *)
(* record's or else the requested one; title, category and picture are the *)
(* record's or empty; price and purchase_price are the record's or 0;      *)
(* shop_id is the record's or else the requested store_id; and the field   *)
(* `id` of the result is the record's _id, else its id, else empty.        *)
(***************************************************************************)
C24_Or(value, default) == IF value = Undefined THEN default ELSE value

C24_ProductFoundFields ==
  probe.answered =>
    LET rec == probe.product.rec
        result == SerializeProductLookupResult(probe.events[1].response)
    IN /\ Len(probe.events) = 1 /\ probe.events[1].ok
       /\ result.exists
       /\ result.stripe_code = C24_Or(rec.stripeCode, Str(probe.request.stripe_code))
       /\ result.title = C24_Or(rec.title, Str(""))
       /\ result.category = C24_Or(rec.category, Str(""))
       /\ result.picture = C24_Or(rec.picture, Str(""))
       /\ result.price = C24_Or(rec.price, Num(0))
       /\ result.purchase_price = C24_Or(rec.purchasePrice, Num(0))
       /\ result.shop_id = C24_Or(rec.shopId, Str(probe.request.store_id))
       /\ result.id = C24_Or(rec._id, C24_Or(rec.id, Str("")))

(***************************************************************************)
(* C25. The metadata map of a found product: every key of the record's     *)
(* free-form metadata object is in the map; a structured value (object or  *)
(* array) is there as its JSON text and a scalar as its string form;       *)
(* {a: 1, b: {x: 2}} with units = 3 gives exactly {a: "1", b: "{\"x\":2}", *)
(* units: "3"}; when the record's metadata is absent or not an object the  *)
(* map holds the fixed-name entries only.                                  *)
(***************************************************************************)
FixedNames == {"units", "isVending", "availableItems"}

C26_FixedNamesInjected ==
  probe.answered =>
    \A name \in FixedNames :
      probe.product.rec[name] # Undefined =>
        /\ name \in DOMAIN probe.events[1].response.metadata
        /\ probe.events[1].response.metadata[name]
             = StringOf(probe.product.rec[name])

(***************************************************************************)
(* C27. When the record's free-form metadata has a key named units,        *)
(* isVending or availableItems and the record carries the top-level field  *)
(* of that name too, the value of the key in the map is the top-level      *)
(* field as a string and never the free-form value.                        *)
(***************************************************************************)
C27_Shadowed(name) ==
  /\ probe.product.rec.metadata.t = "object"
  /\ \E i \in 1..Len(probe.product.rec.metadata.entries) :
       probe.product.rec.metadata.entries[i][1] = name
  /\ probe.product.rec[name] # Undefined

C27_TopLevelOverrides ==
  probe.answered =>
    \A name \in FixedNames :
      C27_Shadowed(name) =>
        probe.events[1].response.metadata[name] = StringOf(probe.product.rec[name])

(***************************************************************************)
(* C28. Every call of one of the three handlers whose lookups have ended,  *)
(* by returning or by throwing, has invoked its callback exactly once,     *)
(* with an error or with a response and never both; no call has invoked    *)
(* it twice, and no handler has returned without invoking it.              *)
(***************************************************************************)
C28_LookupsEnded(c) ==
  /\ Started(c)
  /\ Len(ShopLookups(c)) = 0 \/ calls[c].shop.kind # "pending"
  /\ Len(ProductLookups(c)) = 0 \/ calls[c].product.kind # "pending"

C28_ErrorOrResponse(e) ==
  IF e.ok
    THEN "response" \in DOMAIN e /\ "code" \notin DOMAIN e
    ELSE "code" \in DOMAIN e /\ "response" \notin DOMAIN e

C28_ExactlyOneCallback ==
  \A c \in CallIds :
    /\ Len(Callbacks(c)) <= 1
    /\ C28_LookupsEnded(c) =>
         /\ Done(c)
         /\ Len(Callbacks(c)) = 1
         /\ C28_ErrorOrResponse(Callbacks(c)[1])
         /\ ~calls[c].escaped
    /\ Done(c) => C28_LookupsEnded(c)
    /\ ~Done(c) => Len(Callbacks(c)) = 0

\* one call answered after its product lookup threw, the other answered that
\* there is no such store
C28_Witness ==
  /\ Done(1) /\ calls[1].rpc = "GetProductByStripeCode"
  /\ calls[1].product.kind = "throws"
  /\ Len(Callbacks(1)) = 1 /\ ~Callbacks(1)[1].ok
  /\ Done(2) /\ calls[2].rpc = "VerifyStoreAccess"
  /\ calls[2].shop.kind = "none"
  /\ Len(Callbacks(2)) = 1 /\ Callbacks(2)[1].ok

(***************************************************************************)
(* C29. start() returns once the bind has been requested, before the bind  *)
(* callback runs; and in every interleaving of start(), the bind callback  *)
(* and stop(), once stop() has resolved after a shutdown the server is not *)
(* put into the serving state any more.                                    *)
(***************************************************************************)
C29_StartReturnsBeforeBind ==
  life.bind = "pending" => life.startPromise = "fulfilled"

C29_NoServingAfterStop ==
  [][/\ C29_StartReturnsBeforeBind
     /\ (life.shutdown = "done" /\ life.stopPromise = "fulfilled" /\ ~life.serving
          => ~life'.serving)]_vars

(***************************************************************************)
(* C30. GetProductByStripeCode looks at the existence of the store only    *)
(* and keys both lookups by the request: the store lookup is made with the *)
(* resolved environment and the requested store_id; when it returns a      *)
(* record, of a closed store too, the product lookup is made with the same *)
(* environment, the requested store_id and the requested stripe_code,      *)
(* never the record's own id; a product found is answered exists true.     *)
(***************************************************************************)
C30_GatesOnExistenceOnly ==
  \A c \in CallIds :
    /\ calls[c].rpc = "GetProductByStripeCode" /\ Started(c)
    /\ ~LacksIdentifier(c)
    => /\ ShopLookups(c)
            = << CallGetShopById(getEnvironmentFromMetadata(calls[c].metadata),
                                 calls[c].request.store_id) >>
       /\ calls[c].shop.kind = "record" =>
            ProductLookups(c)
              = << CallGetProductById2(
                     getEnvironmentFromMetadata(calls[c].metadata),
                     calls[c].request.store_id, calls[c].request.stripe_code) >>
       /\ Done(c) /\ calls[c].shop.kind = "record"
            /\ calls[c].product.kind = "record"
            => /\ Len(Callbacks(c)) = 1
               /\ Callbacks(c)[1].ok
               /\ Callbacks(c)[1].response.exists

C30_Witness ==
  /\ Done(1) /\ calls[1].rpc = "GetProductByStripeCode"
  /\ calls[1].shop.kind = "record"
  /\ calls[1].shop.rec.status = Str("closed")
  /\ calls[1].product.kind = "record"
  /\ Callbacks(1)[1].response.exists
  /\ Done(2) /\ calls[2].rpc = "GetProductByStripeCode"
  /\ calls[2].shop.kind = "record"
  /\ calls[2].shop.rec.id = Str("shop-1")
  /\ ProductLookups(2)[1].store_id = "s1"
  /\ calls[2].product.kind = "record"

====
